---- MODULE Spec2Model ----
(***************************************************************************)
(* A model of the two composables of czernika/vue3-composables:            *)
(*   useProvider  (packages/use-provider/index.ts)                         *)
(*   useRefState  (packages/use-ref-state/index.ts)                        *)
(* JavaScript values are records [t, n, s]: t is the result of typeof      *)
(* (null is kept apart as "null"), n the numeric payload or the object     *)
(* identity, s the string payload or the function's name.                  *)
(***************************************************************************)
EXTENDS Integers, Sequences, FiniteSets

VARIABLES comps, consumer, outcome, cells, asked, lastSet, lastAssign, afterAssign, twin, calls,
          raised

vars == <<comps, consumer, outcome, cells, asked, lastSet, lastAssign, afterAssign, twin, calls,
          raised>>
providerVars == <<comps, consumer, outcome>>
stateVars == <<cells, asked, lastSet, lastAssign, afterAssign, twin, calls, raised>>

(* ---------------------------- bounds ---------------------------------- *)
MaxDepth == 2
MaxNum == 1

(* ------------------------- JavaScript values -------------------------- *)
Undefined == [t |-> "undefined", n |-> 0, s |-> ""]
Null == [t |-> "null", n |-> 0, s |-> ""]
NaN == [t |-> "number", n |-> 0, s |-> "NaN"]
Num(i) == [t |-> "number", n |-> i, s |-> ""]
Str(x) == [t |-> "string", n |-> 0, s |-> x]
Bool(b) == [t |-> "boolean", n |-> IF b THEN 1 ELSE 0, s |-> ""]
Obj(i) == [t |-> "object", n |-> i, s |-> ""]
Fn(name) == [t |-> "function", n |-> 0, s |-> name]

\* ToBoolean, as applied by the `!ctx` test
Truthy(v) ==
    CASE v.t = "undefined" -> FALSE
      [] v.t = "null" -> FALSE
      [] v.t = "number" -> ~(v = NaN \/ v.n = 0)
      [] v.t = "string" -> v.s # ""
      [] v.t = "boolean" -> v.n = 1
      [] OTHER -> TRUE

(* ============================ useProvider ============================= *)
TEST_KEY == "test-provider"
KEY_A == "provider-a"
Keys == {TEST_KEY, KEY_A}

\* the values an ancestor publishes with provide(key, value)
ProvidedValues == {Undefined, Null, Num(0), Str(""), Bool(FALSE), Num(1), Obj(1)}

\* marks a key the component never called provide() with
NotProvided == [t |-> "absent", n |-> 0, s |-> ""]
NoProvides == [k \in Keys |-> NotProvided]

\* inject(key) without a default: the nearest ancestor of the consumer that
\* has the key among its provides decides, even when the value it published
\* is null or undefined; undefined when no ancestor has the key.
RECURSIVE Resolve(_, _)
Resolve(j, key) ==
    IF j = 0 THEN Undefined
    ELSE IF comps[j][key] # NotProvided THEN comps[j][key]
    ELSE Resolve(j - 1, key)

inject(providerKey) == Resolve(Len(comps), providerKey)

Message(providerKey) ==
    <<"Incorrect use of provider ", providerKey,
      ". You may have forgotten to wrap it in the corresponding component.">>

NoOutcome == [kind |-> "none", key |-> "", val |-> Undefined, msg |-> <<>>]
Throw(providerKey) ==
    [kind |-> "throw", key |-> providerKey, val |-> Undefined,
     msg |-> Message(providerKey)]
Return(providerKey, v) ==
    [kind |-> "return", key |-> providerKey, val |-> v, msg |-> <<>>]

\* variant: the guard is dropped and whatever inject() gave is returned
useProvider_NoGuard(providerKey) == Return(providerKey, inject(providerKey))

\* variant: the guard is `ctx === undefined`
useProvider_UndefinedOnly(providerKey) ==
    LET ctx == inject(providerKey)
    IN  IF ctx = Undefined THEN Throw(providerKey) ELSE Return(providerKey, ctx)

useProvider(providerKey) ==
    LET ctx == inject(providerKey)
    IN  IF ~Truthy(ctx) THEN Throw(providerKey) ELSE Return(providerKey, ctx)

InitProvider ==
    /\ comps = <<>>
    /\ consumer = FALSE
    /\ outcome = NoOutcome

\* an ancestor component is set up below the ones already set up
MountProvider ==
    /\ ~consumer
    /\ Len(comps) < MaxDepth
    /\ comps' = Append(comps, NoProvides)
    /\ UNCHANGED <<consumer, outcome>>
    /\ UNCHANGED stateVars

\* provide(key, value) in the setup() of the component being set up
Provide(key, value) ==
    /\ ~consumer
    /\ Len(comps) > 0
    /\ comps' = [comps EXCEPT ![Len(comps)][key] = value]
    /\ UNCHANGED <<consumer, outcome>>
    /\ UNCHANGED stateVars

\* the consuming component is set up below all the providers
MountConsumer ==
    /\ ~consumer
    /\ consumer' = TRUE
    /\ UNCHANGED <<comps, outcome>>
    /\ UNCHANGED stateVars

\* useProvider(key) in the setup() of the consumer
UseProvider(key) ==
    /\ consumer
    /\ outcome' = useProvider(key)
    /\ UNCHANGED <<comps, consumer>>
    /\ UNCHANGED stateVars

NextProvider ==
    \/ MountProvider
    \/ \E key \in Keys, value \in ProvidedValues : Provide(key, value)
    \/ MountConsumer
    \/ \E key \in Keys : UseProvider(key)

(* ============================ useRefState ============================= *)
\* the two calls of useRefState under observation
Cells == {"A", "B"}

Numbers == {Num(i) : i \in 0..MaxNum}
\* literal (non-callable) values of the state
Literals == {Undefined, Null, NaN} \cup Numbers
\* updater functions: prev => prev + 1 and prev => prev - 1
Updaters == {Fn("inc"), Fn("dec")}
\* a function-typed value of the state: () => undefined
Handler == Fn("handler")
\* every callable argument of the setter: the updaters, () => Handler,
\* prev => [...prev, 4], and Handler itself
Callables == Updaters \cup {Fn("pick"), Fn("append"), Handler}
Setters == Literals \cup Callables

\* the argument lists of useRefState(initialValue?, asReadonly?)
ArgLists ==
    {<<>>} \cup {<<x>> : x \in Literals}
           \cup {<<x, m>> : x \in Literals, m \in {Undefined, Bool(TRUE), Bool(FALSE)}}

\* JavaScript's prev + d for d in {1, -1}
Plus(prev, d) ==
    CASE prev.t = "number" /\ prev # NaN -> Num(prev.n + d)
      [] prev.t = "null" -> Num(d)
      [] prev.t = "function" /\ d = 1 -> Str("() => undefined1")
      [] OTHER -> NaN

\* the call setter(prev) throws: the spread of prev => [...prev, 4] needs an
\* iterable prev
Throws(setter, prev) ==
    setter = Fn("append") /\ prev.t \notin {"string", "array"}

\* the call setter(prev) of an updater function
Apply(setter, prev) ==
    CASE setter = Fn("inc") -> Plus(prev, 1)
      [] setter = Fn("dec") -> Plus(prev, -1)
      [] setter = Fn("pick") -> Handler
      [] setter = Handler -> Undefined
      [] OTHER -> Undefined

setterIsFunction(value) == value.t = "function"

NoCell == [made |-> FALSE, state |-> Undefined, asReadonly |-> TRUE]

\* variant: ref(initialValue ?? undefined)
useRefState_NullishDefault(args) ==
    LET initialValue == IF Len(args) >= 1 /\ args[1] # Null THEN args[1] ELSE Undefined
        asReadonly == IF Len(args) >= 2 /\ args[2] # Undefined
                      THEN args[2] ELSE Bool(TRUE)
    IN  [made |-> TRUE, state |-> initialValue, asReadonly |-> Truthy(asReadonly)]

\* useRefState: const state = ref(initialValue), and the handle of the
\* returned pair is readonly(state) or state
useRefState(args) ==
    LET initialValue == IF Len(args) >= 1 THEN args[1] ELSE Undefined
        asReadonly == IF Len(args) >= 2 /\ args[2] # Undefined
                      THEN args[2] ELSE Bool(TRUE)
    IN  [made |-> TRUE, state |-> initialValue, asReadonly |-> Truthy(asReadonly)]

\* variant: the updater is applied twice
setState_Twice(cell, setter) ==
    IF setterIsFunction(setter) /\ Throws(setter, cell.state)
    THEN [cell |-> cell,
          calls |-> <<[f |-> setter, x |-> cell.state]>>, threw |-> TRUE]
    ELSE IF setterIsFunction(setter)
    THEN [cell |-> [cell EXCEPT !.state = Apply(setter, Apply(setter, cell.state))],
          calls |-> <<[f |-> setter, x |-> cell.state],
                      [f |-> setter, x |-> Apply(setter, cell.state)]>>,
          threw |-> FALSE]
    ELSE [cell |-> [cell EXCEPT !.state = setter],
          calls |-> <<>>, threw |-> FALSE]

\* variant: the else branch is missing
setState_NoLiteral(cell, setter) ==
    IF setterIsFunction(setter) /\ Throws(setter, cell.state)
    THEN [cell |-> cell,
          calls |-> <<[f |-> setter, x |-> cell.state]>>, threw |-> TRUE]
    ELSE IF setterIsFunction(setter)
    THEN [cell |-> [cell EXCEPT !.state = Apply(setter, cell.state)],
          calls |-> <<[f |-> setter, x |-> cell.state]>>, threw |-> FALSE]
    ELSE [cell |-> cell, calls |-> <<>>, threw |-> FALSE]

\* variant: the setter writes through the handle it returned
setState_ThroughHandle(cell, setter) ==
    IF setterIsFunction(setter) /\ Throws(setter, cell.state)
    THEN [cell |-> cell,
          calls |-> <<[f |-> setter, x |-> cell.state]>>, threw |-> TRUE]
    ELSE IF cell.asReadonly
    THEN [cell |-> cell,
          calls |-> IF setterIsFunction(setter)
                    THEN <<[f |-> setter, x |-> cell.state]>> ELSE <<>>,
          threw |-> FALSE]
    ELSE IF setterIsFunction(setter)
    THEN [cell |-> [cell EXCEPT !.state = Apply(setter, cell.state)],
          calls |-> <<[f |-> setter, x |-> cell.state]>>, threw |-> FALSE]
    ELSE [cell |-> [cell EXCEPT !.state = setter],
          calls |-> <<>>, threw |-> FALSE]

\* variant: typeof value === 'object'
setState_NeverCalls(cell, setter) ==
    [cell |-> [cell EXCEPT !.state = setter], calls |-> <<>>, threw |-> FALSE]

\* variant: the call of the updater is wrapped in try/catch and the error
\* is dropped
setState_Swallows(cell, setter) ==
    IF setterIsFunction(setter) /\ Throws(setter, cell.state)
    THEN [cell |-> cell,
          calls |-> <<[f |-> setter, x |-> cell.state]>>, threw |-> FALSE]
    ELSE IF setterIsFunction(setter)
    THEN [cell |-> [cell EXCEPT !.state = Apply(setter, cell.state)],
          calls |-> <<[f |-> setter, x |-> cell.state]>>, threw |-> FALSE]
    ELSE [cell |-> [cell EXCEPT !.state = setter],
          calls |-> <<>>, threw |-> FALSE]

\* setState: the cell after the call, the updater invocations it made, and
\* whether the call ended in an error thrown to the caller. There is no
\* try/catch: when setter(state.value) throws, the assignment does not happen.
setState(cell, setter) ==
    IF setterIsFunction(setter) /\ Throws(setter, cell.state)
    THEN [cell |-> cell,
          calls |-> <<[f |-> setter, x |-> cell.state]>>, threw |-> TRUE]
    ELSE IF setterIsFunction(setter)
    THEN [cell |-> [cell EXCEPT !.state = Apply(setter, cell.state)],
          calls |-> <<[f |-> setter, x |-> cell.state]>>, threw |-> FALSE]
    ELSE [cell |-> [cell EXCEPT !.state = setter],
          calls |-> <<>>, threw |-> FALSE]

\* handle.value
HandleGet(cell) == cell.state

\* variant: the handle is always the ref itself
HandleSet_Writable(cell, v) == [cell EXCEPT !.state = v]

\* variant: the handle is always the read-only view
HandleSet_Ignored(cell, v) == cell

\* handle.value = v: the read-only view ignores the write, the ref takes it
HandleSet(cell, v) ==
    IF cell.asReadonly THEN cell ELSE [cell EXCEPT !.state = v]

\* ---- history variables ----
\* asked[c]:  the asReadonly argument c was made with (undefined when omitted)
\* afterAssign: the most recent operation was a setter call on a cell whose
\*             previous operation was a direct assignment
\* lastSet[c]: the initial value of c, or what the handle read when the most
\*             recent setter call on c returned
\* lastAssign[c]: the value of the direct assignment, when that was the most
\*             recent operation on c
\* twin[c]:    for a read-only cell c, a mutable cell made with the same
\*             initial value, which has received the same setter calls as c
\* calls:      the updater invocations made by the most recent operation
\* raised:     the most recent operation ended in an error thrown to its caller
NotAssigned == [t |-> "absent", n |-> 0, s |-> ""]
InitialArg(args) == IF args = <<>> THEN Undefined ELSE args[1]
ModeArg(args) == IF Len(args) < 2 THEN Undefined ELSE args[2]
InRange(v) == (v.t = "number" => v.n \in 0..MaxNum) /\ v.t # "string"

InitRefState ==
    /\ cells = [c \in Cells |-> NoCell]
    /\ asked = [c \in Cells |-> Undefined]
    /\ afterAssign = FALSE
    /\ lastSet = [c \in Cells |-> Undefined]
    /\ lastAssign = [c \in Cells |-> NotAssigned]
    /\ twin = [c \in Cells |-> NoCell]
    /\ calls = <<>>
    /\ raised = FALSE

\* const [state, setState] = useRefState(...args)
UseRefState(c, args) ==
    /\ ~cells[c].made
    /\ cells' = [cells EXCEPT ![c] = useRefState(args)]
    /\ asked' = [asked EXCEPT ![c] = ModeArg(args)]
    /\ afterAssign' = FALSE
    /\ lastSet' = [lastSet EXCEPT ![c] = InitialArg(args)]
    /\ lastAssign' = [lastAssign EXCEPT ![c] = NotAssigned]
    /\ twin' = [twin EXCEPT ![c] =
                  IF cells'[c].asReadonly
                  THEN useRefState(<<InitialArg(args), Bool(FALSE)>>)
                  ELSE NoCell]
    /\ calls' = <<>>
    /\ raised' = FALSE
    /\ UNCHANGED providerVars

\* variant: `state` is one ref shared by all calls of useRefState
SetState_Shared(c, setter) ==
    /\ cells[c].made
    /\ InRange(setState(cells[c], setter).cell.state)
    /\ cells' = [d \in Cells |->
                   IF cells[d].made
                   THEN [cells[d] EXCEPT !.state = setState(cells[c], setter).cell.state]
                   ELSE cells[d]]
    /\ calls' = setState(cells[c], setter).calls
    /\ raised' = setState(cells[c], setter).threw
    /\ afterAssign' = (lastAssign[c] # NotAssigned)
    /\ UNCHANGED asked
    /\ lastSet' = [lastSet EXCEPT ![c] =
                     IF raised' THEN lastSet[c] ELSE HandleGet(cells'[c])]
    /\ lastAssign' = [lastAssign EXCEPT ![c] = NotAssigned]
    /\ twin' = [twin EXCEPT ![c] =
                  IF twin[c].made THEN setState(twin[c], setter).cell ELSE NoCell]
    /\ UNCHANGED providerVars

\* setState(setter)
SetState(c, setter) ==
    /\ cells[c].made
    /\ InRange(setState(cells[c], setter).cell.state)
    /\ cells' = [cells EXCEPT ![c] = setState(cells[c], setter).cell]
    /\ calls' = setState(cells[c], setter).calls
    /\ raised' = setState(cells[c], setter).threw
    /\ afterAssign' = (lastAssign[c] # NotAssigned)
    /\ UNCHANGED asked
    /\ lastSet' = [lastSet EXCEPT ![c] =
                     IF raised' THEN lastSet[c] ELSE HandleGet(cells'[c])]
    /\ lastAssign' = [lastAssign EXCEPT ![c] = NotAssigned]
    /\ twin' = [twin EXCEPT ![c] =
                  IF twin[c].made THEN setState(twin[c], setter).cell ELSE NoCell]
    /\ UNCHANGED providerVars

\* state.value = v
DirectAssign(c, v) ==
    /\ cells[c].made
    /\ cells' = [cells EXCEPT ![c] = HandleSet(cells[c], v)]
    /\ lastAssign' = [lastAssign EXCEPT ![c] = v]
    /\ calls' = <<>>
    /\ raised' = FALSE
    /\ afterAssign' = FALSE
    /\ UNCHANGED <<asked, lastSet, twin>>
    /\ UNCHANGED providerVars

\* the operations on the pair that one call of useRefState returned
CellStep(c) ==
    \/ \E args \in ArgLists : UseRefState(c, args)
    \/ \E setter \in Setters : SetState(c, setter)
    \/ \E v \in Literals : DirectAssign(c, v)

\* the same operations on a second pair, with fewer inputs: a read-only and a
\* mutable cell, a literal and a functional setter call, a direct assignment
PeerArgLists == {<<Null>>, <<Num(0), Bool(FALSE)>>}
PeerSetters == {Num(0), Fn("inc")}
PeerValues == {Num(1)}

PeerStep(c) ==
    \/ \E args \in PeerArgLists : UseRefState(c, args)
    \/ \E setter \in PeerSetters : SetState(c, setter)
    \/ \E v \in PeerValues : DirectAssign(c, v)

\* two calls of useRefState, the operations on the two pairs interleaved
NextRefState == CellStep("A") \/ PeerStep("B")

\* a component that calls useRefState once
NextOneCell == CellStep("A")

(* ========================== specifications ============================ *)
Init == InitProvider /\ InitRefState

SpecProvider == Init /\ [][NextProvider]_vars
SpecRefState == Init /\ [][NextRefState]_vars
SpecOneCell == Init /\ [][NextOneCell]_vars

(* ============================= properties ============================= *)
\* an ancestor of the consumer called provide() with the key
Published(key) == \E j \in 1..Len(comps) : comps[j][key] # NotProvided

\* the value the consumer sees under the key: that of the nearest publisher
Nearest(key) ==
    LET j == CHOOSE i \in 1..Len(comps) :
                 /\ comps[i][key] # NotProvided
                 /\ \A h \in (i + 1)..Len(comps) : comps[h][key] = NotProvided
    IN  comps[j][key]

\* the 'provider not found' error for a key
NotFound(key) ==
    [kind |-> "throw", key |-> key, val |-> Undefined,
     msg |-> <<"Incorrect use of provider ", key,
               ". You may have forgotten to wrap it in the corresponding component.">>]

\* C1: for every key k and every value v that is neither null nor undefined
\* (falsy values included) published under k, useProvider(k) returns v and
\* does not fail.
C1_ReturnsPublished ==
    (/\ outcome.kind # "none"
     /\ Published(outcome.key)
     /\ Nearest(outcome.key) \notin {Null, Undefined})
    => outcome = [kind |-> "return", key |-> outcome.key,
                  val |-> Nearest(outcome.key), msg |-> <<>>]

\* C2: for every key k under which no ancestor has published, useProvider(k)
\* throws the 'provider not found' error naming k and never returns a value,
\* whatever is published under other keys.
C2_NotPublishedThrows ==
    (outcome.kind # "none" /\ ~Published(outcome.key))
    => outcome = NotFound(outcome.key)

C2_Witness ==
    /\ outcome = NotFound(TEST_KEY)
    /\ ~Published(TEST_KEY)
    /\ Published(KEY_A) /\ Nearest(KEY_A) = Obj(1)

\* C3: when the value published under k is null or undefined, useProvider(k)
\* throws the same error as for a key that was never published.
C3_NullishIsNotFound ==
    (/\ outcome.kind # "none"
     /\ Published(outcome.key)
     /\ Nearest(outcome.key) \in {Null, Undefined})
    => outcome = NotFound(outcome.key)

C3_Witness ==
    /\ Published(TEST_KEY) /\ Nearest(TEST_KEY) = Null
    /\ outcome = NotFound(TEST_KEY)

\* C4: calling the setter with an updater f on a cell whose handle reads c,
\* in either access mode, invokes f once with c and leaves the handle at f(c)
\* in that one step.
C4_FunctionalUpdate ==
    [][\A c \in Cells, f \in Updaters :
         SetState(c, f) =>
           /\ calls' = <<[f |-> f, x |-> HandleGet(cells[c])]>>
           /\ HandleGet(cells'[c]) = Apply(f, HandleGet(cells[c]))]_vars

C4_Witness ==
    /\ calls = <<[f |-> Fn("inc"), x |-> Num(0)]>>
    /\ cells["A"].made /\ cells["A"].asReadonly /\ ~cells["B"].made
    /\ HandleGet(cells["A"]) = Num(1)

C6_InitialValue ==
    [][\A c \in Cells, args \in ArgLists :
         UseRefState(c, args) =>
           HandleGet(cells'[c]) = (IF args = <<>> THEN Undefined ELSE args[1])]_vars

C6_Witness ==
    /\ cells["A"].made /\ ~cells["A"].asReadonly /\ asked["A"] = Bool(FALSE)
    /\ HandleGet(cells["A"]) = Null
    /\ lastSet["A"] = Null /\ lastAssign["A"] = NotAssigned
    /\ calls = <<>> /\ ~afterAssign

\* C7: a cell made with asReadonly true or omitted always reads its initial
\* value or the result of its most recent setter call: direct assignments
\* through the handle change nothing.
C7_ReadonlyHandle ==
    \A c \in Cells :
        (cells[c].made /\ asked[c] \in {Undefined, Bool(TRUE)})
        => HandleGet(cells[c]) = lastSet[c]

C7_Witness ==
    \E c \in Cells :
        /\ cells[c].made /\ asked[c] = Undefined
        /\ lastAssign[c] = Num(1)
        /\ HandleGet(cells[c]) = Num(0)

\* C8: in a cell made with asReadonly false, the handle reads v after a direct
\* assignment of v, and an updater f called right after it receives v and
\* leaves the cell at f(v).
C8_AssignedIsCurrent ==
    \A c \in Cells :
        (cells[c].made /\ asked[c] = Bool(FALSE) /\ lastAssign[c] # NotAssigned)
        => HandleGet(cells[c]) = lastAssign[c]

C8_SetterSeesAssigned ==
    \A c \in Cells, f \in Updaters :
        (SetState(c, f) /\ asked[c] = Bool(FALSE) /\ lastAssign[c] # NotAssigned)
        => /\ calls' = <<[f |-> f, x |-> lastAssign[c]]>>
           /\ HandleGet(cells'[c]) = Apply(f, lastAssign[c])

C8_MutableHandle == []C8_AssignedIsCurrent /\ [][C8_SetterSeesAssigned]_vars

C8_Witness ==
    /\ afterAssign
    /\ calls = <<[f |-> Fn("inc"), x |-> Num(0)]>>
    /\ cells["A"].made /\ asked["A"] = Bool(FALSE) /\ ~cells["B"].made
    /\ HandleGet(cells["A"]) = Num(1)
    /\ lastSet["A"] = Num(1)

\* C9: a setter call or a direct assignment on one cell leaves the value read
\* from the other cell's handle unchanged.
C9_Independent ==
    [][\A c \in Cells : \A d \in Cells \ {c} :
         \/ HandleGet(cells'[d]) = HandleGet(cells[d])
         \/ ~(\/ \E setter \in Setters : SetState(c, setter)
              \/ \E v \in Literals : DirectAssign(c, v)
              \/ \E args \in ArgLists : UseRefState(c, args))]_vars

C9_Witness ==
    /\ cells["A"].made /\ cells["B"].made
    /\ ~cells["A"].asReadonly /\ ~cells["B"].asReadonly
    /\ lastAssign["A"] = Num(1) /\ HandleGet(cells["A"]) = Num(1)
    /\ lastSet["B"] = Num(0) /\ HandleGet(cells["B"]) = Num(0)
    /\ lastAssign["B"] = NotAssigned

\* C10: a read-only cell reads the same as a mutable cell made with the same
\* initial value that received the same setter calls, and in both modes the
\* handle reads the setter's result as soon as the call has returned.
C10_SameAsTwin ==
    \A c \in Cells :
        (cells[c].made /\ cells[c].asReadonly)
        => /\ twin[c].made /\ ~twin[c].asReadonly
           /\ HandleGet(cells[c]) = HandleGet(twin[c])

C10_Visible ==
    \A c \in Cells, setter \in Setters :
        (SetState(c, setter) /\ ~raised') =>
            HandleGet(cells'[c]) =
                (IF setter \in Callables
                 THEN Apply(setter, HandleGet(cells[c])) ELSE setter)

C11_NeverHoldsFunction ==
    [][\A c \in Cells, setter \in Setters :
         SetState(c, setter) =>
           /\ (setter.t = "function" =>
                 /\ calls' = <<[f |-> setter, x |-> HandleGet(cells[c])]>>
                 /\ HandleGet(cells'[c]) # setter)
           /\ HandleGet(cells'[c]).t # "function"]_vars

\* C11 (amended): every callable argument of the setter is invoked once with
\* the current value and a non-callable one is stored as it is; after a setter
\* call the cell holds a function only when the updater returned that
\* function, or threw while the cell already held it.
C11_CallableIsInvoked ==
    [][\A c \in Cells, setter \in Setters :
         SetState(c, setter) =>
           /\ (setter.t = "function" =>
                 calls' = <<[f |-> setter, x |-> HandleGet(cells[c])]>>)
           /\ (setter.t # "function" =>
                 calls' = <<>> /\ HandleGet(cells'[c]) = setter)
           /\ (HandleGet(cells'[c]).t = "function" =>
                 /\ setter.t = "function"
                 /\ HandleGet(cells'[c]) =
                      (IF raised' THEN HandleGet(cells[c])
                       ELSE Apply(setter, HandleGet(cells[c]))))]_vars

C11_Witness ==
    /\ cells["A"].made
    /\ calls = <<[f |-> Fn("pick"), x |-> Num(1)]>>
    /\ ~raised
    /\ HandleGet(cells["A"]) = Handler

\* C12 (as stated): creating the cell and every setter call, with a literal
\* or with an updater, completes without signalling a failure to the caller.
C12_NoErrors == ~raised

\* C12 (amended): creating the cell never fails, and a setter call with a
\* literal or with an updater that returns completes without failure and
\* leaves the cell holding the literal or the updater's result; an error
\* thrown by the updater itself is not caught: it reaches the caller of the
\* setter and the cell keeps its value.
C12_Create ==
    \A c \in Cells, args \in ArgLists : UseRefState(c, args) => ~raised'

C12_Set ==
    \A c \in Cells, setter \in Setters :
        SetState(c, setter) =>
            IF setter.t = "function" /\ Throws(setter, HandleGet(cells[c]))
            THEN raised' /\ cells'[c] = cells[c]
            ELSE /\ ~raised'
                 /\ HandleGet(cells'[c]) =
                      (IF setter.t = "function"
                       THEN Apply(setter, HandleGet(cells[c])) ELSE setter)

C12_OnlyUpdaterErrors == [][C12_Create /\ C12_Set]_vars

C12_Witness ==
    /\ cells["A"].made /\ cells["A"].asReadonly
    /\ raised
    /\ calls = <<[f |-> Fn("append"), x |-> Num(1)]>>
    /\ HandleGet(cells["A"]) = Num(1)
====
